---- MODULE Spec2Model ----
(***************************************************************************)
(* A model of python-redmine's client entry point (redminelib/__init__.py) *)
(* and of its request engines (redminelib/engines).                        *)
(*                                                                         *)
(*   SpecSession  Redmine.session / Redmine.download: the scoped swap of   *)
(*                the Client's active engine.                              *)
(*   SpecBulk     SyncEngine / GeventEngine process_bulk_request.          *)
(*   SpecRetry    the retry policy both engines mount on their session.    *)
(*   SpecResolve  Redmine.__getattr__, upload, download, search: the       *)
(*                Client's operations and the requests they issue.         *)
(*   SpecShared   Redmine.session entered by two callers of one Client.    *)
(***************************************************************************)
EXTENDS Integers, Sequences, FiniteSets, TLC

VARIABLES
    \* ---- Redmine.session / Redmine.download
    engine,     \* self.engine: the Client's active engine instance
    nextId,     \* identity of the next engine instance to be constructed
    stack,      \* per caller: the open session() generators, innermost last
    exc,        \* per caller: the exception propagating in its code, or "none"
    lastExit,   \* per caller: what the last exit of a session scope did
    \* ---- process_bulk_request
    cfg,        \* the engine's EngineConfig
    bpc,        \* position of the bulk call: idle, running, returned, raised
    bkind,      \* class of the engine: "sync" or "gevent"
    bmethod,    \* HTTP method of the bulk set
    bn,         \* number of parameter sets in bulk_params
    status,     \* per request: unsent, inflight, ok, failed, rejected
    page,       \* per request: the items of its response, once it has one
    issued,     \* the requests in the order they were issued
    completed,  \* the requests in the order they completed
    acc,        \* the list process_bulk_request has built so far
    result,     \* the list process_bulk_request returned
    raisedBy,   \* the request whose error process_bulk_request raised, or 0
    \* ---- the retry policy of a session adapter
    rq,         \* one request going through a mounted adapter
    \* ---- Redmine.__getattr__
    ver,        \* self.ver: None or a version tuple
    res,        \* outcome of the last operation of the Client
    netCalls,   \* number of requests the Client has issued
    sret        \* what the last operation, if a search(), fetched and returned

sessionVars == <<engine, nextId, stack, exc, lastExit>>
bulkVars    == <<cfg, bpc, bkind, bmethod, bn, status, page, issued, completed, acc,
                 result, raisedBy>>
retryVars   == <<rq>>
resolveVars == <<ver, res, netCalls, sret>>
vars == <<sessionVars, bulkVars, retryVars, resolveVars>>
\* what the steps of one part of the model leave alone
bulkCall == <<bpc, bkind, bmethod, bn, status, page, issued, completed, acc, result,
              raisedBy>>
notSession == <<bulkVars, retryVars, resolveVars>>
notBulk == <<sessionVars, retryVars, resolveVars>>
notRetry == <<sessionVars, bulkCall, resolveVars>>
notResolve == <<sessionVars, bulkVars, retryVars>>

None == "None"

(***************************************************************************)
(* Bounds of the model.                                                    *)
(***************************************************************************)
MaxEngines == 4     \* engine instances constructed in one behaviour
MaxDepth == 3       \* session scopes open at once
MaxReqs == 3        \* parameter sets in one bulk set
MaxGroupSize == 2   \* largest EngineConfig.group_size tried
MaxRetries == 2     \* largest EngineConfig.retries tried
MaxVer == 3         \* largest component of a version tuple
MaxCalls == 2       \* requests a Client issues in one behaviour
MaxNameLen == 3     \* characters in a resource name
MaxRaw == 2         \* raw items a search fetches

(***************************************************************************)
(* Redmine.session and Redmine.download                                    *)
(***************************************************************************)
Callers == {"A", "B"}
\* the callers that use the Client in SpecSession: one, so scopes nest strictly
NestedCallers == {"A"}

EngineClasses == {"sync", "gevent"}
Errors == {"domain", "other"}      \* BaseRedmineError, any other exception

\* an engine instance: its identity, its class and the options it was built with
NewEngine(id, cls, stream, raw) ==
    [id |-> id, cls |-> cls, stream |-> stream, raw |-> raw]

\* options of a session() call: the "stream" key of requests (or unset) and
\* return_raw_response
SessionOptions == [stream : {"unset", "on", "off"}, raw : BOOLEAN]
DownloadOptions == [stream |-> "on", raw |-> TRUE]

\* utilities.merge_dicts(engine.requests, options.pop('requests', {}))
merge_dicts(cur, override) == IF override = "unset" THEN cur ELSE override

\* engine.__class__(requests=merge_dicts(...), **options)
SessionEngine(id, cur, opts) ==
    NewEngine(id, cur.cls, merge_dicts(cur.stream, opts.stream), opts.raw)

\* except exceptions.BaseRedmineError as e: raise e   (any other error is not
\* caught): the exception that leaves the generator
SessionExceptSwallow(e) == IF e = "domain" THEN "none" ELSE e
SessionExcept(e) == e

\* finally: self.engine = engine
SessionFinallyKeepsEngine(saved, cur, e) == cur
SessionFinallyOnSuccessOnly(saved, cur, e) == IF e = "none" THEN saved ELSE cur
SessionFinally(saved, cur, e) == saved

Top(s) == s[Len(s)]
Pop(s) == SubSeq(s, 1, Len(s) - 1)

InitialEngines == {NewEngine(0, c, "off", FALSE) : c \in EngineClasses}
NoEngine == NewEngine(-1, "sync", "off", FALSE)
NoExit == [raised |-> "none", delivered |-> "none", saved |-> NoEngine,
           after |-> NoEngine, kind |-> "none", nested |-> TRUE]

\* caller c leaves its innermost scope while no scope that another caller
\* entered after it is still open
LeavesInnermost(c) ==
    \A d \in Callers \ {c} : \A i \in 1..Len(stack[d]) :
        stack[d][i].own.id < Top(stack[c]).own.id

SessionInit ==
    /\ engine \in InitialEngines
    /\ nextId = 1
    /\ stack = [c \in Callers |-> <<>>]
    /\ exc = [c \in Callers |-> "none"]
    /\ lastExit = [c \in Callers |-> NoExit]

\* the code of caller c that runs now is not the body of download()'s scope
InUserCode(c) == IF stack[c] = <<>> THEN TRUE ELSE Top(stack[c]).kind = "user"

\* with self.session(**options): entry, up to the yield
Enter(c, opts, kind) ==
    /\ exc[c] = "none"
    /\ InUserCode(c)
    /\ Len(stack[c]) < MaxDepth
    /\ nextId <= MaxEngines
    /\ LET new == SessionEngine(nextId, engine, opts)
       IN /\ stack' = [stack EXCEPT ![c] =
                 Append(@, [saved |-> engine, own |-> new, kind |-> kind,
                            requested |-> FALSE])]
          /\ engine' = new
    /\ nextId' = nextId + 1
    /\ UNCHANGED <<exc, lastExit>>
    /\ UNCHANGED notSession

SessionEnter(c) == \E opts \in SessionOptions : Enter(c, opts, "user")

\* the engine's constructor raises: the assignment to self.engine never happens
SessionCtorFails(c) ==
    /\ exc[c] = "none"
    /\ InUserCode(c)
    /\ exc' = [exc EXCEPT ![c] = "other"]
    /\ UNCHANGED <<engine, nextId, stack, lastExit>>
    /\ UNCHANGED notSession

\* download(): with self.session(requests={'stream': True}, return_raw_response=True)
DownloadEnter(c) == Enter(c, DownloadOptions, "download")

\* download(): response = self.engine.request('get', url, ...), which returns or raises
DownloadRequest(c) ==
    /\ exc[c] = "none"
    /\ stack[c] # <<>>
    /\ Top(stack[c]).kind = "download"
    /\ ~Top(stack[c]).requested
    /\ \E out \in {"none"} \cup Errors :
          /\ exc' = [exc EXCEPT ![c] = out]
          /\ stack' = [stack EXCEPT ![c][Len(stack[c])].requested = TRUE]
    /\ UNCHANGED <<engine, nextId, lastExit>>
    /\ UNCHANGED notSession

\* the body of a user's scope raises
BodyRaise(c) ==
    /\ exc[c] = "none"
    /\ stack[c] # <<>>
    /\ Top(stack[c]).kind = "user"
    /\ \E e \in Errors : exc' = [exc EXCEPT ![c] = e]
    /\ UNCHANGED <<engine, nextId, stack, lastExit>>
    /\ UNCHANGED notSession

\* the scope is left: the generator resumes at the yield (with the body's
\* exception thrown into it, if any), runs except and finally, and the
\* exception that leaves it reaches the code around the with statement
SessionExit(c) ==
    /\ stack[c] # <<>>
    /\ LET f == Top(stack[c]) IN
       /\ f.kind = "download" => (f.requested \/ exc[c] # "none")
       /\ LET out == IF exc[c] = "none" THEN "none" ELSE SessionExcept(exc[c])
              eng == SessionFinally(f.saved, engine, exc[c])
          IN /\ engine' = eng
             /\ exc' = [exc EXCEPT ![c] = out]
             /\ lastExit' = [lastExit EXCEPT ![c] =
                    [raised |-> exc[c], delivered |-> out, saved |-> f.saved,
                     after |-> eng, kind |-> f.kind,
                     nested |-> lastExit[c].nested /\ LeavesInnermost(c)]]
    /\ stack' = [stack EXCEPT ![c] = Pop(@)]
    /\ UNCHANGED nextId
    /\ UNCHANGED notSession

\* the code around a with statement (or the top-level caller) catches the error
Catch(c) ==
    /\ exc[c] # "none"
    /\ InUserCode(c)
    /\ exc' = [exc EXCEPT ![c] = "none"]
    /\ UNCHANGED <<engine, nextId, stack, lastExit>>
    /\ UNCHANGED notSession

SessionStep(c) ==
    \/ SessionEnter(c)
    \/ SessionCtorFails(c)
    \/ DownloadEnter(c)
    \/ DownloadRequest(c)
    \/ BodyRaise(c)
    \/ SessionExit(c)
    \/ Catch(c)

(***************************************************************************)
(* EngineConfig                                                            *)
(***************************************************************************)
DefaultRetries == 3
DefaultGroupSize == 4

\* EngineConfig(retries=r, group_size=g); __post_init__ converts with int()
EngineConfig(r, g) == [retries |-> r, group_size |-> g]

\* EngineConfig.grequests_map_args
grequests_map_args(config) == [size |-> config.group_size]

(***************************************************************************)
(* SyncEngine.process_bulk_request, GeventEngine.process_bulk_request      *)
(***************************************************************************)
Methods == {"get", "GET", "post"}
\* the item lists a response may carry under the container key
Pages == {<<>>, <<1>>, <<2, 1>>}

\* method.lower()
Lower(m) == IF m = "GET" THEN "get" ELSE m

\* if method.lower() == 'get':  (GeventEngine only; SyncEngine has no such branch)
UsesGrequestsAnyMethod(kind, method) == kind = "gevent"
UsesGrequests(kind, method) == kind = "gevent" /\ Lower(method) = "get"

\* grequests.map(requests, size=...): Pool(size) if size else None; a request
\* is spawned when the pool has a free slot, and without a pool at once
PoolHasRoom(size, inflight) == size = 0 \/ inflight < size

InFlight == {i \in 1..Len(status) : status[i] = "inflight"}
Unsent == {i \in 1..Len(status) : status[i] = "unsent"}

\* what a request can end in: a response process_response accepts ("ok"), no
\* response at all ("failed": the transport gave up), or a response that
\* process_response raises on ("rejected")
Outcomes == {"ok", "failed", "rejected"}

\* self.request(method, url, params=params)[container] raises
RequestRaisesOnRejectedOnly(out) == out = "rejected"
RequestRaises(out) == out # "ok"

\* an exception of self.request leaves the comprehension and the method
ComprehensionSkipsOnRaise(pc) == pc
ComprehensionOnRaise(pc) == "raised"

\* [resource for params in bulk_params for resource in self.request(...)[container]]
SeqAccumulateDedup(list, items) ==
    list \o SelectSeq(items, LAMBDA x : \A k \in 1..Len(list) : list[k] # x)
SeqAccumulate(list, items) == list \o items

\* grequests.map returns one entry per request, in the order of the requests:
\* the response, or None for a request that got none
Response(st, pg, i) ==
    [req |-> i, kind |-> IF st[i] = "failed" THEN None ELSE st[i], items |-> pg[i]]
MapResponsesByCompletion(st, pg, comp) ==
    [k \in 1..Len(comp) |-> Response(st, pg, comp[k])]
MapResponses(st, pg, comp) == [i \in 1..Len(st) |-> Response(st, pg, i)]

\* ... for response in responses if response is not None
KeepAnyResponse(r) == TRUE
KeepResponse(r) == r.kind # None

\* self.process_response(response)[container] raises
ProcessResponseRaises(r) == r.kind # "ok"

RECURSIVE Flatten(_)
\* [resource for response in processed_responses for resource in response]
Flatten(rs) == IF rs = <<>> THEN <<>> ELSE Head(rs).items \o Flatten(Tail(rs))

BulkIdle ==
    /\ bpc = "idle"
    /\ bkind = "sync"
    /\ bmethod = "get"
    /\ bn = 0
    /\ status = <<>>
    /\ page = <<>>
    /\ issued = <<>>
    /\ completed = <<>>
    /\ acc = <<>>
    /\ result = <<>>
    /\ raisedBy = 0

\* engine.process_bulk_request(method, url, container, bulk_params) is called
BulkCall ==
    /\ bpc = "idle"
    /\ \E k \in EngineClasses, m \in Methods, n \in 1..MaxReqs :
          /\ bkind' = k
          /\ bmethod' = m
          /\ bn' = n
          /\ status' = [i \in 1..n |-> "unsent"]
          /\ page' = [i \in 1..n |-> <<>>]
    /\ bpc' = "running"
    /\ UNCHANGED <<cfg, issued, completed, acc, result, raisedBy>>
    /\ UNCHANGED notBulk

\* the comprehension calls self.request for the next parameter set
SeqIssue ==
    /\ bpc = "running"
    /\ ~UsesGrequests(bkind, bmethod)
    /\ InFlight = {}
    /\ Len(issued) < bn
    /\ LET i == Len(issued) + 1 IN
       /\ status' = [status EXCEPT ![i] = "inflight"]
       /\ issued' = Append(issued, i)
    /\ UNCHANGED <<cfg, bpc, bkind, bmethod, bn, page, completed, acc, result, raisedBy>>
    /\ UNCHANGED notBulk

\* self.request returns the decoded body, or raises
SeqReturn ==
    /\ bpc = "running"
    /\ ~UsesGrequests(bkind, bmethod)
    /\ \E i \in InFlight, out \in Outcomes, p \in Pages :
          /\ out # "ok" => p = <<>>
          /\ status' = [status EXCEPT ![i] = out]
          /\ page' = [page EXCEPT ![i] = p]
          /\ completed' = Append(completed, i)
          /\ IF RequestRaises(out)
             THEN bpc' = ComprehensionOnRaise(bpc) /\ acc' = acc /\ raisedBy' = i
             ELSE bpc' = bpc /\ acc' = SeqAccumulate(acc, p) /\ raisedBy' = 0
    /\ UNCHANGED <<cfg, bkind, bmethod, bn, issued, result>>
    /\ UNCHANGED notBulk

\* the comprehension is exhausted: the list is returned
SeqFinish ==
    /\ bpc = "running"
    /\ ~UsesGrequests(bkind, bmethod)
    /\ InFlight = {}
    /\ Len(issued) = bn
    /\ bpc' = "returned"
    /\ result' = acc
    /\ UNCHANGED <<cfg, bkind, bmethod, bn, status, page, issued, completed, acc,
                   raisedBy>>
    /\ UNCHANGED notBulk

\* grequests.map spawns the next request of the list
GeventDispatch ==
    /\ bpc = "running"
    /\ UsesGrequests(bkind, bmethod)
    /\ Len(issued) < bn
    /\ PoolHasRoom(grequests_map_args(cfg).size, Cardinality(InFlight))
    /\ LET i == Len(issued) + 1 IN
       /\ status' = [status EXCEPT ![i] = "inflight"]
       /\ issued' = Append(issued, i)
    /\ UNCHANGED <<cfg, bpc, bkind, bmethod, bn, page, completed, acc, result, raisedBy>>
    /\ UNCHANGED notBulk

\* a request in flight ends, in any order
GeventComplete ==
    /\ bpc = "running"
    /\ UsesGrequests(bkind, bmethod)
    /\ \E i \in InFlight, out \in Outcomes, p \in Pages :
          /\ out # "ok" => p = <<>>
          /\ status' = [status EXCEPT ![i] = out]
          /\ page' = [page EXCEPT ![i] = p]
          /\ completed' = Append(completed, i)
    /\ UNCHANGED <<cfg, bpc, bkind, bmethod, bn, issued, acc, result, raisedBy>>
    /\ UNCHANGED notBulk

\* grequests.map has joined every request and returns; the responses are
\* processed and flattened
GeventGather ==
    /\ bpc = "running"
    /\ UsesGrequests(bkind, bmethod)
    /\ Len(issued) = bn
    /\ InFlight = {}
    /\ LET responses == MapResponses(status, page, completed)
           kept == SelectSeq(responses, KeepResponse)
           bad == {k \in 1..Len(kept) : ProcessResponseRaises(kept[k])}
       IN IF bad # {}
          THEN /\ bpc' = "raised"
               /\ result' = result
               /\ raisedBy' = kept[CHOOSE k \in bad : \A j \in bad : k <= j].req
          ELSE /\ bpc' = "returned"
               /\ result' = Flatten(kept)
               /\ raisedBy' = 0
    /\ UNCHANGED <<cfg, bkind, bmethod, bn, status, page, issued, completed, acc>>
    /\ UNCHANGED notBulk

BulkStep ==
    \/ BulkCall
    \/ SeqIssue
    \/ SeqReturn
    \/ SeqFinish
    \/ GeventDispatch
    \/ GeventComplete
    \/ GeventGather

(***************************************************************************)
(* The retry policy: EngineConfig.retry_args, create_session.  The policy  *)
(* is urllib3's Retry, run by the requests HTTPAdapter it is mounted on.   *)
(***************************************************************************)
\* 'status_forcelist': [500, 502, 503, 504]
status_forcelist_without_500 == {502, 503, 504}
status_forcelist == {500, 502, 503, 504}

\* EngineConfig.retry_args
retry_args(config) ==
    [total |-> config.retries, status_forcelist |-> status_forcelist,
     raise_on_redirect |-> TRUE, raise_on_status |-> TRUE]

\* session.mount('http://', ...); session.mount('https://', ...), in both engines
Mounted(kind) == {"http", "https"}

\* the adapter's max_retries for a request of that scheme: the mounted Retry,
\* or the Retry(0) of the adapter a requests.Session starts with
AdapterRetry(kind, scheme, config) ==
    IF scheme \in Mounted(kind)
    THEN retry_args(config)
    ELSE [total |-> 0, status_forcelist |-> {}, raise_on_redirect |-> TRUE,
          raise_on_status |-> TRUE]

Schemes == {"http", "https"}
RetryMethods == {"GET", "POST"}
\* Retry's default allowed_methods hold the idempotent methods
MethodRetryable(m) == m = "GET"
\* statuses a server may answer with
Statuses == {200, 302, 404, 429, 500, 502, 503, 504}
\* Retry.RETRY_AFTER_STATUS_CODES
RetryAfterStatuses == {413, 429, 503}

\* what one attempt ends in: a response (status, Retry-After header present
\* or not), or a failure to connect or to read
Attempts ==
    [err : {"none"}, status : Statuses, retryAfter : BOOLEAN]
        \cup [err : {"connect", "read"}, status : {0}, retryAfter : {FALSE}]
NoAttempt == [err |-> "none", status |-> 0, retryAfter |-> FALSE]

\* Retry.is_retry(method, status_code, has_retry_after)
is_retry(policy, total, method, a) ==
    /\ MethodRetryable(method)
    /\ \/ a.status \in policy.status_forcelist
       \/ total # 0 /\ a.retryAfter /\ a.status \in RetryAfterStatuses

RetryIdle ==
    rq = [pc |-> "idle", kind |-> "sync", scheme |-> "http", method |-> "GET",
          total |-> 0, retried |-> 0, causes |-> {}, last |-> NoAttempt]

\* session.request(...): the adapter mounted for the URL's scheme sends it
RetrySend ==
    /\ rq.pc = "idle"
    /\ \E k \in EngineClasses, sc \in Schemes, m \in RetryMethods :
          rq' = [rq EXCEPT !.pc = "sending", !.kind = k, !.scheme = sc,
                           !.method = m,
                           !.total = AdapterRetry(k, sc, cfg).total]
    /\ UNCHANGED cfg
    /\ UNCHANGED notRetry

\* Retry.increment: one retry is used up; when none is left MaxRetryError is
\* raised, unless the attempt got a response and raise_on_status is off
Increment(policy, a) ==
    IF rq.total - 1 < 0
    THEN rq' = [rq EXCEPT !.pc = IF a.err = "none" /\ ~policy.raise_on_status
                                 THEN "returned" ELSE "raised",
                          !.last = a, !.total = @ - 1]
    ELSE rq' = [rq EXCEPT !.last = a, !.total = @ - 1, !.retried = @ + 1,
                          !.causes = @ \cup {a}]

\* an attempt gets a response
RetryResponse ==
    /\ rq.pc = "sending"
    /\ \E a \in Attempts :
          /\ a.err = "none"
          /\ IF is_retry(AdapterRetry(rq.kind, rq.scheme, cfg), rq.total,
                         rq.method, a)
             THEN Increment(AdapterRetry(rq.kind, rq.scheme, cfg), a)
             ELSE rq' = [rq EXCEPT !.pc = "returned", !.last = a]
    /\ UNCHANGED cfg
    /\ UNCHANGED notRetry

\* an attempt fails to connect, or fails while the response is read
RetryError ==
    /\ rq.pc = "sending"
    /\ \E a \in Attempts :
          /\ a.err # "none"
          /\ IF a.err = "read" /\ ~MethodRetryable(rq.method)
             THEN rq' = [rq EXCEPT !.pc = "raised", !.last = a]
             ELSE Increment(AdapterRetry(rq.kind, rq.scheme, cfg), a)
    /\ UNCHANGED cfg
    /\ UNCHANGED notRetry

RetryStep ==
    \/ RetrySend
    \/ RetryResponse
    \/ RetryError

(***************************************************************************)
(* Redmine.__getattr__ and Redmine.upload                                  *)
(***************************************************************************)
\* the characters of an identifier: a lower-case letter, an upper-case
\* letter and the word separator
Chars == {"a", "B", "_"}
RECURSIVE SeqsUpTo(_, _)
SeqsUpTo(S, n) ==
    IF n = 0 THEN {<<>>}
    ELSE LET shorter == SeqsUpTo(S, n - 1)
         IN shorter \cup {Append(w, x) : w \in shorter, x \in S}
Names == SeqsUpTo(Chars, MaxNameLen) \ {<<>>}

\* str.upper() on one character
Upper(ch) == IF ch = "a" THEN "A" ELSE ch

RECURSIVE Split(_, _)
\* str(resource_name).split('_'): cur is the word being read
Split(name, cur) ==
    IF name = <<>> THEN <<cur>>
    ELSE IF Head(name) = "_" THEN <<cur>> \o Split(Tail(name), <<>>)
    ELSE Split(Tail(name), Append(cur, Head(name)))

\* str.lower() on one character
LowerChar(ch) == IF ch = "B" THEN "b" ELSE IF ch = "A" THEN "a" ELSE ch

\* word[0].upper() + word[1:], for a non-empty word
Capitalize(word) ==
    <<Upper(word[1])>> \o [k \in 1..(Len(word) - 1) |-> LowerChar(word[k + 1])]
UpperFirst(word) == <<Upper(word[1])>> \o Tail(word)

RECURSIVE Join(_)
\* ''.join(word[0].upper() + word[1:] for word in words); every word is non-empty
Join(words) ==
    IF words = <<>> THEN <<>>
    ELSE UpperFirst(Head(words)) \o Join(Tail(words))

\* a version: (major, minor, patch); the empty tuple stands for None
NoVersion == <<>>
Versions == [1..3 -> 0..MaxVer]

RECURSIVE TupleLessOrEqual(_, _)
TupleLessOrEqual(a, b) ==
    IF a = <<>> THEN TRUE
    ELSE IF b = <<>> THEN FALSE
    ELSE IF Head(a) # Head(b) THEN Head(a) < Head(b)
    ELSE TupleLessOrEqual(Tail(a), Tail(b))

RECURSIVE TupleLess(_, _)
\* self.ver < redmine_version: Python compares tuples lexicographically
TupleLess(a, b) ==
    IF b = <<>> THEN FALSE
    ELSE IF a = <<>> THEN TRUE
    ELSE IF Head(a) # Head(b) THEN Head(a) < Head(b)
    ELSE TupleLess(Tail(a), Tail(b))

\* resources.registry: canonical name -> resource class, in registration order
RegistryOrder == <<<<"A", "a">>, <<"A", "B">>, <<"B">>, <<"B", "a">>, <<"B", "B">>>>
RegisteredNames == {RegistryOrder[k] : k \in 1..Len(RegistryOrder)}
\* resource_class.redmine_version
RedmineVersion(cls) ==
    IF cls = <<"A", "a">> THEN <<1, 0, 0>>
    ELSE IF cls = <<"A", "B">> THEN <<2, 1, 0>>
    ELSE IF cls = <<"B", "a">> THEN <<3, 0, 0>>
    ELSE IF cls = <<"B", "B">> THEN <<3, 1, 0>>
    ELSE <<0, 0, 0>>
\* resource_class.search_hints: the empty set stands for None
SearchHints(cls) ==
    IF cls = <<"A", "a">> THEN {"x"}
    ELSE IF cls = <<"A", "B">> THEN {"y"}
    ELSE IF cls = <<"B", "B">> THEN {"z"}
    ELSE {}
\* resource_class.container_all or resource_class.container_filter
Container(cls) ==
    IF cls = <<"A", "a">> THEN "aas"
    ELSE IF cls = <<"A", "B">> THEN "abs"
    ELSE IF cls = <<"B", "B">> THEN "bbs"
    ELSE "others"

Result(op, name, canon, kind, cls, before, after) ==
    [op |-> op, name |-> name, canon |-> canon, kind |-> kind, cls |-> cls,
     client |-> "self", callsBefore |-> before, calls |-> after]

\* the body of Redmine.__getattr__: what the access ends in
GetAttrOutcome(v, name) ==
    IF Head(name) = "_"
    THEN [kind |-> "AttributeError", cls |-> <<>>, canon |-> <<>>]
    ELSE LET words == Split(name, <<>>) IN
         IF \E k \in 1..Len(words) : words[k] = <<>>
         THEN [kind |-> "IndexError", cls |-> <<>>, canon |-> <<>>]
         ELSE LET canonical == Join(words) IN
              IF canonical \notin RegisteredNames
              THEN [kind |-> "ResourceError", cls |-> <<>>, canon |-> canonical]
              ELSE IF v # NoVersion /\ TupleLess(v, RedmineVersion(canonical))
              THEN [kind |-> "ResourceVersionMismatchError", cls |-> canonical,
                    canon |-> canonical]
              ELSE [kind |-> "manager", cls |-> canonical, canon |-> canonical]

\* what a search() leaves behind: the step it ended in, the raw items it
\* fetched, and the dictionary it returned (its container buckets, the
\* buckets a manager converted, its 'unknown' entry, or None)
SearchRecord(stage, raw, buckets, converted, hasUnknown, unknown, none) ==
    [stage |-> stage, raw |-> raw, buckets |-> buckets, converted |-> converted,
     hasUnknown |-> hasUnknown, unknown |-> unknown, none |-> none]
NoSearch == SearchRecord("idle", <<>>, <<>>, <<>>, FALSE, <<>>, FALSE)
\* the Client is single-threaded: no operation starts while a search() waits
\* for its bulk request
ClientIdle == sret.stage # "request"

ResolveIdle ==
    /\ res = Result("none", <<>>, <<>>, "none", <<>>, 0, 0)
    /\ netCalls = 0
    /\ sret = NoSearch

\* redmine.<resource_name>
GetAttr ==
    /\ ClientIdle
    /\ \E name \in Names :
          LET out == GetAttrOutcome(ver, name)
          IN res' = Result("getattr", name, out.canon, out.kind, out.cls,
                           netCalls, netCalls)
    /\ sret' = NoSearch
    /\ UNCHANGED <<ver, netCalls>>
    /\ UNCHANGED notResolve

\* what upload() is handed: an open stream (of bytes, of text, or one that
\* cannot be read), or a path (to a non-empty file, or to none)
Files == {"bytes stream", "text stream", "unreadable stream", "file path",
          "bad path"}

\* the checks of Redmine.upload that precede the request: the error they
\* raise, or "none"
UploadMinVersionThree == <<3, 0, 0>>
UploadMinVersion == <<1, 4, 0>>
UploadCheck(v, f) ==
    IF v # NoVersion /\ TupleLess(v, UploadMinVersion) THEN "VersionMismatchError"
    ELSE IF f = "unreadable stream" THEN "FileObjectError"
    ELSE IF f = "bad path" THEN "NoFileError"
    ELSE "none"

\* redmine.upload(f)
Upload ==
    /\ ClientIdle
    /\ \E f \in Files :
          LET err == UploadCheck(ver, f) IN
          IF err # "none"
          THEN /\ res' = Result("upload", <<>>, <<>>, err, <<>>, netCalls, netCalls)
               /\ netCalls' = netCalls
          ELSE /\ netCalls < MaxCalls
               /\ netCalls' = netCalls + 1
               /\ \E k \in {"token", "request error"} :
                     res' = Result("upload", <<>>, <<>>, k, <<>>, netCalls,
                                   netCalls + 1)
    /\ sret' = NoSearch
    /\ UNCHANGED ver
    /\ UNCHANGED notResolve

\* redmine.download(url, savepath, filename): its request is issued inside
\* a session scope, which has restored the engine by the time the file name
\* is derived from the url
Urls == {"ends in a file name", "ends in a slash"}
DownloadOutcome(url, savepath, filename, response) ==
    IF response = "request error" THEN "request error"
    ELSE IF savepath = None THEN "response"
    ELSE IF filename = None /\ url = "ends in a slash" THEN "FileUrlError"
    ELSE "savepath"

Download ==
    /\ ClientIdle
    /\ netCalls < MaxCalls
    /\ netCalls' = netCalls + 1
    /\ \E url \in Urls, savepath \in {None, "dir"}, filename \in {None, "f"},
          response \in {"response", "request error"} :
          res' = Result("download", <<>>, <<>>,
                        DownloadOutcome(url, savepath, filename, response),
                        <<>>, netCalls, netCalls + 1)
    /\ sret' = NoSearch
    /\ UNCHANGED ver
    /\ UNCHANGED notResolve

\* the version check that opens Redmine.search
SearchNoGate(v) == FALSE
SearchMinVersion == <<3, 0, 0>>
SearchGate(v) == v # NoVersion /\ TupleLess(v, SearchMinVersion)

\* manager_map[container] = getattr(self, name)
SearchManagerUngated(v, name) ==
    [kind |-> "manager", cls |-> name, canon |-> name]
SearchManager(v, name) == GetAttrOutcome(v, name)

\* the registry loop of Redmine.search after its first k entries: the hint
\* table (hint -> container key), the managers (container key -> class of
\* the manager resource-name access returned), or the error that access
\* raised
RECURSIVE SearchMaps(_, _)
SearchMaps(v, k) ==
    IF k = 0
    THEN [kind |-> "ok", cls |-> <<>>, container_map |-> <<>>,
          manager_map |-> <<>>]
    ELSE LET prev == SearchMaps(v, k - 1)
             name == RegistryOrder[k]
         IN IF prev.kind # "ok" \/ SearchHints(name) = {} THEN prev
            ELSE LET out == SearchManager(v, name)
                     cm == [h \in SearchHints(name) |-> Container(name)]
                           @@ prev.container_map
                 IN IF out.kind # "manager"
                    THEN [kind |-> out.kind, cls |-> out.cls,
                          container_map |-> cm,
                          manager_map |-> prev.manager_map]
                    ELSE [kind |-> "ok", cls |-> <<>>, container_map |-> cm,
                          manager_map |-> (Container(name) :> out.cls)
                                          @@ prev.manager_map]

\* the raw items the search endpoint can return: item k of the list is
\* [id |-> k, type |-> its declared type]
RawTypes == {"x", "y", "z", "m", "w"}
RawResults ==
    {[k \in 1..Len(ts) |-> [id |-> k, type |-> ts[k]]] :
        ts \in SeqsUpTo(RawTypes, MaxRaw)}

\* del resource['type'], seen through the bucket that holds the resource
StripKeepsType(resource) == resource
StripType(resource) == [id |-> resource.id]

\* results[key].append(resource), creating the list on first use
BucketPrepend(results, key, resource) ==
    (key :> <<resource>> \o (IF key \in DOMAIN results THEN results[key] ELSE <<>>))
    @@ results
BucketAppend(results, key, resource) ==
    (key :> Append(IF key \in DOMAIN results THEN results[key] ELSE <<>>,
                   resource)) @@ results

\* the bucketing loop of Redmine.search after its first k raw items
RECURSIVE Bucketed(_, _, _)
Bucketed(raw, container_map, k) ==
    IF k = 0 THEN [buckets |-> <<>>, unknown |-> <<>>]
    ELSE LET prev == Bucketed(raw, container_map, k - 1)
             resource == raw[k]
         IN IF resource.type \in DOMAIN container_map
            THEN [prev EXCEPT !.buckets =
                     BucketAppend(@, container_map[resource.type],
                                  StripType(resource))]
            ELSE [prev EXCEPT !.unknown =
                     BucketAppend(@, resource.type, StripType(resource))]

\* whether results keeps its 'unknown' entry
KeepsUnknownAlways(unknown) == TRUE
KeepsUnknown(unknown) == DOMAIN unknown # {}

\* the dictionary Redmine.search returns for the raw items it fetched
SearchReturn(raw, maps) ==
    LET results == Bucketed(raw, maps.container_map, Len(raw))
        hasUnknown == KeepsUnknown(results.unknown)
        converted == [c \in DOMAIN results.buckets \cap DOMAIN maps.manager_map
                        |-> maps.manager_map[c]]
    IN SearchRecord("done", raw, results.buckets, converted, hasUnknown,
                    results.unknown,
                    DOMAIN results.buckets = {} /\ ~hasUnknown)

\* redmine.search(query, **options) up to the moment its bulk request is on
\* the wire
SearchRequest ==
    /\ ClientIdle
    /\ LET maps == SearchMaps(ver, Len(RegistryOrder)) IN
       IF SearchGate(ver)
       THEN /\ res' = Result("search", <<>>, <<>>, "VersionMismatchError", <<>>,
                             netCalls, netCalls)
            /\ sret' = [NoSearch EXCEPT !.stage = "gate"]
            /\ netCalls' = netCalls
       ELSE IF maps.kind # "ok"
       THEN /\ res' = Result("search", <<>>, <<>>, maps.kind, maps.cls,
                             netCalls, netCalls)
            /\ sret' = [NoSearch EXCEPT !.stage = "resolve"]
            /\ netCalls' = netCalls
       ELSE /\ netCalls < MaxCalls
            /\ netCalls' = netCalls + 1
            /\ res' = Result("search", <<>>, <<>>, "pending", <<>>,
                             netCalls, netCalls + 1)
            /\ sret' = [NoSearch EXCEPT !.stage = "request"]
    /\ UNCHANGED ver
    /\ UNCHANGED notResolve

\* the rest of redmine.search, from the return of its bulk request
SearchResponse ==
    /\ sret.stage = "request"
    /\ \/ /\ res' = [res EXCEPT !.kind = "request error"]
          /\ sret' = [NoSearch EXCEPT !.stage = "failed"]
       \/ \E raw \in RawResults :
             /\ sret' = SearchReturn(raw, SearchMaps(ver, Len(RegistryOrder)))
             /\ res' = [res EXCEPT !.kind = IF sret'.none THEN "None"
                                            ELSE "results"]
    /\ UNCHANGED <<ver, netCalls>>
    /\ UNCHANGED notResolve

ResolveStep ==
    \/ GetAttr
    \/ Upload
    \/ Download
    \/ SearchRequest
    \/ SearchResponse

(***************************************************************************)
(* Specifications                                                          *)
(***************************************************************************)
SessionIdle ==
    /\ engine = NewEngine(0, "sync", "off", FALSE)
    /\ nextId = 1
    /\ stack = [c \in Callers |-> <<>>]
    /\ exc = [c \in Callers |-> "none"]
    /\ lastExit = [c \in Callers |-> NoExit]

DefaultConfig == EngineConfig(DefaultRetries, DefaultGroupSize)

InitSession ==
    /\ SessionInit
    /\ cfg = DefaultConfig /\ BulkIdle /\ RetryIdle
    /\ ver = NoVersion /\ ResolveIdle
NextSession == \E c \in NestedCallers : SessionStep(c)
SpecSession == InitSession /\ [][NextSession]_vars

\* two callers share the Client, each entering and leaving its own scopes
\* without options: with redmine.session(): ...
SharedEnter(c) == Enter(c, [stream |-> "unset", raw |-> FALSE], "user")
SharedStep(c) ==
    \/ SharedEnter(c)
    \/ BodyRaise(c)
    \/ SessionExit(c)
    \/ Catch(c)
InitShared == InitSession
NextShared == \E c \in Callers : SharedStep(c)
SpecShared == InitShared /\ [][NextShared]_vars

InitBulk ==
    /\ SessionIdle
    /\ \E g \in 0..MaxGroupSize : cfg = EngineConfig(DefaultRetries, g)
    /\ BulkIdle /\ RetryIdle
    /\ ver = NoVersion /\ ResolveIdle
NextBulk == BulkStep
SpecBulk == InitBulk /\ [][NextBulk]_vars

InitRetry ==
    /\ SessionIdle
    /\ \E r \in 0..MaxRetries : cfg = EngineConfig(r, DefaultGroupSize)
    /\ BulkIdle /\ RetryIdle
    /\ ver = NoVersion /\ ResolveIdle
NextRetry == RetryStep
SpecRetry == InitRetry /\ [][NextRetry]_vars

InitResolve ==
    /\ SessionIdle
    /\ cfg = DefaultConfig /\ BulkIdle /\ RetryIdle
    /\ ver \in {NoVersion} \cup Versions
    /\ ResolveIdle
NextResolve == ResolveStep
SpecResolve == InitResolve /\ [][NextResolve]_vars

Init == InitSession
Next == NextSession
Spec == SpecSession

(***************************************************************************)
(* Properties of Redmine.session (SpecSession)                             *)
(***************************************************************************)
\* the frames of caller c nest: each scope saved the engine of the scope
\* around it, and the innermost scope's engine is the active one
ScopesNest(c) ==
    /\ \A k \in 1..Len(stack[c]) :
          stack[c][k].saved = IF k = 1 THEN NewEngine(0, engine.cls, "off", FALSE)
                                       ELSE stack[c][k - 1].own
    /\ engine = IF stack[c] = <<>> THEN NewEngine(0, engine.cls, "off", FALSE)
                                   ELSE Top(stack[c]).own

\* C1: after a session scope exits, normally or with a domain error or with
\* any other error, the active engine is the instance that was active just
\* before the scope was entered; with strictly nested scopes (download()'s
\* included) every exit restores the engine of the matching entry.
SessionRestoresEngine ==
    \A c \in NestedCallers :
        /\ lastExit[c].kind # "none" => lastExit[c].after = lastExit[c].saved
        /\ ScopesNest(c)

\* a download() scope, opened inside a user's scope, was left with a domain
\* error and the user's scope is still open
SessionRestoredAfterNestedError ==
    /\ lastExit["A"].kind = "download"
    /\ lastExit["A"].raised = "domain"
    /\ Len(stack["A"]) = 1
    /\ engine.id = 1
    /\ nextId = 3

\* C2: an error raised in the body of a session scope reaches the caller of
\* the scope, and when it does the previous engine is already restored.
SessionErrorReachesCaller ==
    \A c \in NestedCallers :
        lastExit[c].raised # "none" =>
            /\ lastExit[c].delivered = lastExit[c].raised
            /\ lastExit[c].after = lastExit[c].saved

\* the caller of a user's scope has an error of the body in hand, of either kind
SessionErrorObserved ==
    /\ lastExit["A"].kind = "user"
    /\ lastExit["A"].raised \in Errors
    /\ exc["A"] = lastExit["A"].raised
    /\ stack["A"] = <<>>

(***************************************************************************)
(* Properties of process_bulk_request (SpecBulk)                           *)
(***************************************************************************)
RECURSIVE ItemsInSubmissionOrder(_)
\* the items of the requests i..bn that got a usable response, request by request
ItemsInSubmissionOrder(i) ==
    IF i > bn THEN <<>>
    ELSE (IF status[i] = "ok" THEN page[i] ELSE <<>>) \o ItemsInSubmissionOrder(i + 1)

ConcurrentGet == bkind = "gevent" /\ bmethod \in {"get", "GET"}

\* C3: a bulk GET of the gevent engine returns the per-request item lists
\* concatenated in submission order, whatever the completion order.
BulkGetKeepsSubmissionOrder ==
    (ConcurrentGet /\ bpc = "returned") => result = ItemsInSubmissionOrder(1)

\* the second request completed before the first, and both carried items
BulkGetCompletedOutOfOrder ==
    /\ ConcurrentGet
    /\ bpc = "returned"
    /\ bn = 2
    /\ completed = <<2, 1>>
    /\ page[1] = <<1>>
    /\ page[2] = <<2, 1>>
    /\ result = <<1, 2, 1>>

\* C4: when a member of a concurrent bulk GET gets no response (and the
\* others get usable ones) the batch raises nothing, every sibling is still
\* executed, and the items of the others are returned in submission order.
BulkGetDropsFailedMember ==
    ( /\ ConcurrentGet
      /\ bpc \in {"returned", "raised"}
      /\ \E i \in 1..bn : status[i] = "failed"
      /\ \A i \in 1..bn : status[i] # "rejected" )
    => /\ bpc = "returned"
       /\ raisedBy = 0
       /\ Len(issued) = bn
       /\ \A i \in 1..bn : status[i] \in {"ok", "failed"}
       /\ result = ItemsInSubmissionOrder(1)

\* request 2 of 3 got no response; the items of requests 1 and 3 are returned
BulkGetSecondOfThreeFailed ==
    /\ ConcurrentGet
    /\ bpc = "returned"
    /\ status = <<"ok", "failed", "ok">>
    /\ page[1] = <<2, 1>>
    /\ page[3] = <<1>>
    /\ result = <<2, 1, 1>>

\* requests are issued one after the other: never two in flight, in the order
\* of the parameter sets, each only after the one before it has returned
IssuedOneByOne ==
    /\ Cardinality(InFlight) <= 1
    /\ \A k \in 1..Len(issued) : issued[k] = k
    /\ \A k \in 2..bn : status[k] # "unsent" => status[k - 1] = "ok"

\* a request that failed ended the call with its error; no later one was issued
AbortedAtFailure ==
    \A k \in 1..bn :
        status[k] \in {"failed", "rejected"} =>
            /\ bpc = "raised"
            /\ raisedBy = k
            /\ \A j \in (k + 1)..bn : status[j] = "unsent"

\* C5: on the gevent engine a bulk set whose method is not GET is never
\* parallelized: request k+1 is issued only after request k has returned, and
\* when request k fails the error propagates and k+1.. are never issued.
MutatingBulkIsSequential ==
    (bkind = "gevent" /\ bmethod \notin {"get", "GET"} /\ bpc # "idle") =>
        IssuedOneByOne /\ AbortedAtFailure

\* a POST set of three on the gevent engine whose second request failed
MutatingBulkAbortedAtSecond ==
    /\ bkind = "gevent"
    /\ bmethod = "post"
    /\ cfg.group_size = 2
    /\ status = <<"ok", "failed", "unsent">>
    /\ bpc = "raised"

\* C6: during a concurrent bulk GET the number of requests in flight never
\* exceeds the configured group_size, and the call does not return before
\* every request of the batch has completed or failed.
BulkGetBoundedByGroupSize ==
    (ConcurrentGet /\ bpc # "idle") =>
        /\ Cardinality(InFlight) <= cfg.group_size
        /\ bpc \in {"returned", "raised"} => (InFlight = {} /\ Unsent = {})

\* C7: the sync engine issues the requests of a set one at a time in the
\* order of the parameter sets, and returns the concatenation of each
\* request's items in that order, nothing dropped or deduplicated.
SyncBulkConcatenatesInOrder ==
    (bkind = "sync" /\ bpc # "idle") =>
        /\ IssuedOneByOne
        /\ bpc = "returned" =>
              /\ \A i \in 1..bn : status[i] = "ok"
              /\ result = ItemsInSubmissionOrder(1)

\* a sync set of two returned; item 1 came with both requests and is kept twice
SyncBulkKeptDuplicate ==
    /\ bkind = "sync"
    /\ bpc = "returned"
    /\ page = <<<<1>>, <<2, 1>>>>
    /\ result = <<1, 2, 1>>

\* C8: in a sequentially executed bulk set the failure of request N aborts
\* the call with that error: N+1.. are never sent and no list is returned.
SequentialBulkAbortsOnFailure ==
    (~ConcurrentGet /\ bpc # "idle") =>
        /\ AbortedAtFailure
        /\ bpc = "raised" => (result = <<>> /\ raisedBy \in 1..bn)

\* the second request of a sync set of three failed after the first had
\* delivered items: the call raised, the third request was never sent
SyncBulkAbortedAtSecond ==
    /\ bkind = "sync"
    /\ bpc = "raised"
    /\ raisedBy = 2
    /\ status \in {<<"ok", "failed", "unsent">>, <<"ok", "rejected", "unsent">>}
    /\ acc # <<>>
    /\ result = <<>>

Older(v, m) ==
    LET K == MaxVer + 2
    IN v[1] * K * K + v[2] * K + v[3] < m[1] * K * K + m[2] * K + m[3]

\* the canonical form of the identifier is a registered resource name
NamesRegisteredResource(name) ==
    /\ name # <<>>
    /\ Head(name) # "_"
    /\ \A k \in 1..Len(Split(name, <<>>)) : Split(name, <<>>)[k] # <<>>
    /\ Join(Split(name, <<>>)) \in RegisteredNames

\* C10: resolving a registered resource name fails with
\* ResourceVersionMismatchError exactly when the Client knows the server
\* version and it is strictly older than the resource's minimum version;
\* otherwise it returns a manager bound to the Client and the resource
\* class.  No request is issued either way.
ResolutionGatedByVersion ==
    (res.op = "getattr" /\ NamesRegisteredResource(res.name)) =>
        LET cls == Join(Split(res.name, <<>>))
            tooOld == ver # NoVersion /\ Older(ver, RedmineVersion(cls))
        IN /\ res.kind = IF tooOld THEN "ResourceVersionMismatchError" ELSE "manager"
           /\ res.cls = cls
           /\ res.client = "self"
           /\ res.calls = res.callsBefore
           /\ netCalls = res.calls

\* a Client of version 2.0.3 was refused the resource that needs 2.1.0
ResolutionRefusedOlderServer ==
    /\ res.op = "getattr"
    /\ res.name = <<"a", "_", "B">>
    /\ ver = <<2, 0, 3>>
    /\ res.kind = "ResourceVersionMismatchError"

\* C11: a search() on a Client that knows the server version to be older
\* than 3.0.0 fails with VersionMismatchError in its opening check: no hint
\* table is built, no manager is resolved and no request is issued.
SearchRefusedBelowThree ==
    (res.op = "search" /\ ver # NoVersion /\ Older(ver, <<3, 0, 0>>)) =>
        /\ res.kind = "VersionMismatchError"
        /\ sret.stage = "gate"
        /\ res.calls = res.callsBefore
        /\ netCalls = res.calls

\* a Client of version 2.1.0, with a request behind it, was refused a search
SearchRefusedAtTwoOne ==
    /\ res.op = "search"
    /\ ver = <<2, 1, 0>>
    /\ res.kind = "VersionMismatchError"
    /\ res.callsBefore = 1
    /\ netCalls = 1

\* C12 as stated: on a Client of version 2.0.0, upload() fails with a
\* version-mismatch error and issues no request.
UploadRefusedAtTwo ==
    (res.op = "upload" /\ ver = <<2, 0, 0>>) =>
        /\ res.kind = "VersionMismatchError"
        /\ res.calls = res.callsBefore

\* C12, amended: on a Client of version 2.0.0, search() and the resolution
\* of a resource whose minimum version is 3.0.0 fail with a version-mismatch
\* error and issue no request; upload() fails so exactly when the known
\* version is older than 1.4.0, hence not at 2.0.0.
VersionTwoRefusals ==
    /\ (ver = <<2, 0, 0>> /\ res.op = "search") =>
          /\ res.kind = "VersionMismatchError"
          /\ res.calls = res.callsBefore
    /\ (/\ ver = <<2, 0, 0>>
        /\ res.op = "getattr"
        /\ res.canon \in RegisteredNames
        /\ RedmineVersion(res.canon) = <<3, 0, 0>>) =>
          /\ res.kind = "ResourceVersionMismatchError"
          /\ res.calls = res.callsBefore
    /\ res.op = "upload" =>
          /\ res.kind = "VersionMismatchError" <=>
                (ver # NoVersion /\ Older(ver, <<1, 4, 0>>))
          /\ res.kind = "VersionMismatchError" => res.calls = res.callsBefore

\* a Client of version 2.0.0 uploaded a file: the request was issued and
\* returned a token
UploadedAtTwo ==
    /\ ver = <<2, 0, 0>>
    /\ res.op = "upload"
    /\ res.kind = "token"
    /\ res.calls = res.callsBefore + 1

\* the canonical form of an identifier, read off its characters: a character
\* is upper-cased when it opens the identifier or follows an underscore, the
\* others are kept, and the underscores are dropped
CanonicalForm(name) ==
    LET IsLetter(ch) == ch # "_"
        capitalised == [k \in 1..Len(name) |->
                           IF k = 1 THEN Upper(name[k])
                           ELSE IF name[k - 1] = "_" THEN Upper(name[k])
                           ELSE name[k]]
    IN SelectSeq(capitalised, IsLetter)

\* no word of the identifier is empty
EveryWordHasAFirstCharacter(name) ==
    /\ name # <<>>
    /\ name[1] # "_"
    /\ name[Len(name)] # "_"
    /\ \A k \in 1..(Len(name) - 1) : ~(name[k] = "_" /\ name[k + 1] = "_")

\* C13: access to an identifier that does not start with an underscore and
\* whose canonical form is no registered resource name fails with
\* ResourceError and nothing else; it returns no manager and issues no
\* request.
UnknownNameRaisesResourceError ==
    (/\ res.op = "getattr"
     /\ res.name[1] # "_"
     /\ CanonicalForm(res.name) \notin RegisteredNames) =>
        /\ res.kind = "ResourceError"
        /\ res.calls = res.callsBefore

\* C14: an identifier made of non-empty words separated by underscores is
\* canonicalized to the concatenation of its words, each with its first
\* character upper-cased and the others unchanged; a name without
\* underscores that starts with an upper-case character is its own
\* canonical form.
CanonicalizationCapitalisesWords ==
    (res.op = "getattr" /\ EveryWordHasAFirstCharacter(res.name)) =>
        /\ res.canon = CanonicalForm(res.name)
        /\ ((\A k \in 1..Len(res.name) : res.name[k] # "_")
            /\ res.name[1] = Upper(res.name[1])) => res.canon = res.name

\* the identifier a_a was canonicalized to AA
CanonicalizedSnakeName ==
    /\ res.op = "getattr"
    /\ res.name = <<"a", "_", "a">>
    /\ res.canon = <<"A", "A">>
    /\ res.kind = "ResourceError"

\* the search hints of the registry, and the container key that owns a hint
AllHints == UNION {SearchHints(cls) : cls \in RegisteredNames}
HintOwner(t) == CHOOSE cls \in RegisteredNames : t \in SearchHints(cls)

\* the places of the returned dictionary that hold the raw item k
PlacesOf(k) ==
    UNION {{<<"container", c, j>> :
               j \in {j \in 1..Len(sret.buckets[c]) : sret.buckets[c][j].id = k}} :
           c \in DOMAIN sret.buckets}
    \cup
    UNION {{<<"unknown", t, j>> :
               j \in {j \in 1..Len(sret.unknown[t]) : sret.unknown[t][j].id = k}} :
           t \in DOMAIN sret.unknown}

\* the items of a bucket are in the order of the raw list (an item's id is
\* its place in the raw list)
InRawOrder(bucket) ==
    \A i, j \in 1..Len(bucket) : i < j => bucket[i].id < bucket[j].id

\* C15: search() puts every raw item in exactly one bucket, once: under the
\* container key that owns its type when the type is a search hint, under
\* 'unknown' and its literal type otherwise; the items of a bucket keep the
\* order of the raw list, and no item keeps its type field.
SearchPartitionsRawItems ==
    sret.stage = "done" =>
        /\ \A k \in 1..Len(sret.raw) :
              LET t == sret.raw[k].type IN
              /\ Cardinality(PlacesOf(k)) = 1
              /\ \E place \in PlacesOf(k) :
                    IF t \in AllHints
                    THEN place[1] = "container" /\ place[2] = Container(HintOwner(t))
                    ELSE place[1] = "unknown" /\ place[2] = t
        /\ \A c \in DOMAIN sret.buckets :
              /\ InRawOrder(sret.buckets[c])
              /\ \A j \in 1..Len(sret.buckets[c]) :
                    /\ "type" \notin DOMAIN sret.buckets[c][j]
                    /\ sret.buckets[c][j].id \in 1..Len(sret.raw)
        /\ \A t \in DOMAIN sret.unknown :
              /\ InRawOrder(sret.unknown[t])
              /\ \A j \in 1..Len(sret.unknown[t]) :
                    /\ "type" \notin DOMAIN sret.unknown[t][j]
                    /\ sret.unknown[t][j].id \in 1..Len(sret.raw)

\* two raw items of the same hinted type were returned in one bucket, in
\* their order
SearchBucketedTwoOfAType ==
    /\ sret.stage = "done"
    /\ sret.raw = <<[id |-> 1, type |-> "x"], [id |-> 2, type |-> "x"]>>
    /\ sret.buckets["aas"] = <<[id |-> 1], [id |-> 2]>>

\* C16: the dictionary search() returns has the 'unknown' key only if a raw
\* item had an unhinted type and a container key only if a raw item was
\* bucketed under it; every container bucket went through to_resource_set
\* of the manager that owns the key; and search() returns None exactly when
\* the raw list is empty.
SearchReturnsOnlyFilledKeys ==
    sret.stage = "done" =>
        /\ sret.hasUnknown =>
              \E k \in 1..Len(sret.raw) : sret.raw[k].type \notin AllHints
        /\ \A c \in DOMAIN sret.buckets :
              /\ \E k \in 1..Len(sret.raw) :
                    /\ sret.raw[k].type \in AllHints
                    /\ Container(HintOwner(sret.raw[k].type)) = c
              /\ c \in DOMAIN sret.converted
              /\ Container(sret.converted[c]) = c
        /\ sret.none <=> sret.raw = <<>>
        /\ res.kind = "None" <=> sret.raw = <<>>

\* a search whose only raw item had a hinted type returned one converted
\* bucket and no 'unknown' key
SearchReturnedOneContainer ==
    /\ sret.stage = "done"
    /\ sret.raw = <<[id |-> 1, type |-> "y"]>>
    /\ ~sret.hasUnknown
    /\ DOMAIN sret.converted = {"abs"}
    /\ res.kind = "results"

\* C17: in every operation of the Client, a validation error (unknown
\* resource, version mismatch, bad file input) is raised before the call
\* has issued a request.
ValidationPrecedesRequests ==
    res.kind \in {"ResourceError", "VersionMismatchError",
                  "ResourceVersionMismatchError", "NoFileError",
                  "FileObjectError", "FileUrlError"} =>
        res.calls = res.callsBefore

\* C20: search() resolves, through the version-gated resource-name access,
\* the manager of every registered resource that declares search hints
\* before its bulk request: on a Client whose known version is at least
\* 3.0.0 but older than the minimum version of such a resource, search()
\* fails with ResourceVersionMismatchError and issues no request.
SearchResolvesHintedManagersFirst ==
    LET TooOldFor(cls) == ver # NoVersion /\ Older(ver, RedmineVersion(cls))
        hinted == {cls \in RegisteredNames : SearchHints(cls) # {}}
    IN /\ (/\ res.op = "search"
           /\ ver # NoVersion
           /\ ~Older(ver, <<3, 0, 0>>)
           /\ \E cls \in hinted : TooOldFor(cls)) =>
             /\ res.kind = "ResourceVersionMismatchError"
             /\ res.cls \in hinted
             /\ sret.stage = "resolve"
             /\ res.calls = res.callsBefore
             /\ netCalls = res.calls
       /\ sret.stage \in {"request", "failed", "done"} =>
             \A cls \in hinted : ~TooOldFor(cls)

\* a Client of version 3.0.3 was refused a search by the hinted resource
\* that needs 3.1.0
SearchRefusedByHintedResource ==
    /\ res.op = "search"
    /\ ver = <<3, 0, 3>>
    /\ res.kind = "ResourceVersionMismatchError"
    /\ res.cls = <<"B", "B">>
    /\ res.calls = res.callsBefore

\* C18: every EngineConfig has group_size >= 1, so that the concurrent
\* engine is never handed a fan-out bound of zero or less.
GroupSizeAtLeastOne ==
    /\ cfg.group_size >= 1
    /\ (bkind = "gevent" /\ bpc # "idle") => grequests_map_args(cfg).size >= 1

\* every scope has been left
AllScopesExited ==
    /\ \A c \in Callers : stack[c] = <<>>
    /\ \E c \in Callers : lastExit[c] # NoExit

\* C19: session() restores the engine only when scopes are left in the
\* reverse of the order they were entered.  With two callers on one Client,
\* once every scope has been left the Client has the engine it started with
\* provided every scope was the innermost open one when it was left; scopes
\* left in an interleaved order (A enters, B enters, A exits, B exits) can
\* leave the Client with another engine.
InterleavedScopesMayNotRestore ==
    (AllScopesExited /\ \A c \in Callers : lastExit[c].nested) => engine.id = 0

\* A entered, B entered, A left, B left: the Client is left with the engine
\* of A's scope
InterleavedScopesLeftAnotherEngine ==
    /\ AllScopesExited
    /\ ~lastExit["A"].nested
    /\ lastExit["B"].nested
    /\ lastExit["A"].after.id = 0
    /\ lastExit["B"].after.id = 1
    /\ engine.id = 1

====
